---------------------------- MODULE Spec2Model ----------------------------
(***************************************************************************)
(* A model of ollama_rename_img/main.py: process_dir converts every legacy *)
(* (.webp) file of a directory to .jpeg, asks a classifier for keywords,   *)
(* renames the converted file after the keywords and unlinks the legacy    *)
(* file whose stem matches.                                                *)
(*                                                                         *)
(* Strings are sequences of one-character strings, so that the string      *)
(* functions of the program (replace, join, isdigit, lower, suffix, stem)  *)
(* are computed character by character.  The directory is a function from  *)
(* file names to contents; a content records which initial file the bytes  *)
(* come from.                                                              *)
(***************************************************************************)
EXTENDS Naturals, Sequences, FiniteSets

VARIABLES
    pc,             \* position in process_dir / process_image
    delimiter,      \* the --delimiter option
    caseSensitive,  \* whether Path.glob matches case-sensitively (platform)
    dir,            \* the directory: file name -> content
    webp_files,     \* list(dir_path.glob("*.webp")); names are distinct
    todo,           \* entries of directory_path.iterdir() not yet visited
    converted,      \* converted_list / converted_files
    origin,         \* history: the legacy file each entry was converted from
    convOk,         \* history: whether that conversion succeeded
    i,              \* index of the entry the loop of process_image is at
    response,       \* the classifier's response for entry i
    keywords,       \* ImageClassification.keywords for entry i
    kept_keywords,  \* cleaned_keywords[:5], the list that is joined
    new_file_name,  \* keywords_to_string_with_delimiter's result
    st,             \* history: per entry, its state in the per-file machine
    failedFrom,     \* history: per entry, the state the exception came from
    failKind,       \* history: per entry, which call raised
    derived,        \* history: per entry, the derived new_file_name
    removed,        \* history: per entry, the legacy file its handler unlinked
    initDir         \* history: the directory when process_dir started

\* the options and the platform; the collections convert_files_to_jpeg
\* builds; the locals of one iteration of process_image; the history
params == <<delimiter, caseSensitive, initDir>>
conv   == <<todo, converted, origin, convOk>>
locals == <<response, keywords, kept_keywords, new_file_name>>
hist   == <<st, failedFrom, failKind, derived, removed>>

vars == <<pc, delimiter, caseSensitive, dir, webp_files, todo, converted,
          origin, convOk, i, response, keywords, kept_keywords,
          new_file_name, st, failedFrom, failKind, derived, removed, initDir>>

None == <<"<none>">>

---------------------------------------------------------------------------
(* Characters and strings *)

Digits == {"0", "1", "2", "3", "4", "5", "6", "7", "8", "9"}

\* char.isdigit()
IsDigit(c) == c \in Digits

\* one character of str.lower(), over the letters the model uses
LowerChar(c) ==
    CASE c = "W" -> "w"
      [] c = "E" -> "e"
      [] c = "B" -> "b"
      [] c = "P" -> "p"
      [] OTHER -> c

\* str.lower()
Lower(s) == [k \in 1..Len(s) |-> LowerChar(s[k])]

\* the largest index of character c in s, 0 when there is none (str.rfind + 1)
RFind(s, c) ==
    LET hits == {k \in 1..Len(s) : s[k] = c}
    IN  IF hits = {} THEN 0 ELSE CHOOSE k \in hits : \A m \in hits : m <= k

\* pathlib's PurePath.suffix of a file name: from the last dot, unless that
\* dot is the first or the last character
Suffix(name) ==
    LET d == RFind(name, ".")
    IN  IF 1 < d /\ d < Len(name) THEN SubSeq(name, d, Len(name)) ELSE <<>>

\* pathlib's PurePath.stem
Stem(name) ==
    LET d == RFind(name, ".")
    IN  IF 1 < d /\ d < Len(name) THEN SubSeq(name, 1, d - 1) ELSE name

\* str.endswith
EndsWith(s, t) ==
    Len(t) <= Len(s) /\ SubSeq(s, Len(s) - Len(t) + 1, Len(s)) = t

\* os.path.splitext(p)[0] of a file name: cut at the last dot, unless only
\* dots precede it
SplitextRoot(name) ==
    LET d == RFind(name, ".")
    IN  IF d > 0 /\ \E k \in 1..(d - 1) : name[k] # "."
        THEN SubSeq(name, 1, d - 1) ELSE name

DotWebp == <<".", "w", "e", "b", "p">>
DotJpeg == <<".", "j", "p", "e", "g">>
DSStore == <<".", "D", "S", "_", "S", "t", "o", "r", "e">>

\* the message convert_webp_to_jpeg returns when the image cannot be opened,
\* held as one token: it names no file of the directory
ErrorMessage ==
    <<"Failed to open or process the file. Please ensure it is a valid WebP image.">>

\* a bug: the spaces of a keyword are left as they are
Replace_Nothing(s, d) == s

\* keyword.replace(" ", delimiter)
Replace(s, d) == [k \in 1..Len(s) |-> IF s[k] = " " THEN d ELSE s[k]]

\* any(char.isdigit() for char in keyword)
HasDigit(s) == \E k \in 1..Len(s) : IsDigit(s[k])

\* delimiter.join(list)
RECURSIVE Join(_, _)
Join(d, list) ==
    IF list = <<>> THEN <<>>
    ELSE IF Len(list) = 1 THEN list[1]
    ELSE list[1] \o <<d>> \o Join(d, Tail(list))

\* list[:n]
Take(list, n) == SubSeq(list, 1, IF Len(list) < n THEN Len(list) ELSE n)

\* the slice bound of cleaned_keywords[:5]
KeepLimit == 5

Delimiters == {"_", "-", " "}

---------------------------------------------------------------------------
(* ImageClassification.keywords_to_string_with_delimiter *)

DigitFree(k) == ~HasDigit(k)

\* cleaned_keywords: the digit-free keywords, spaces replaced
CleanedKeywords(kws, d) ==
    LET kept == SelectSeq(kws, DigitFree)
    IN  [k \in 1..Len(kept) |-> Replace(kept[k], d)]

\* a bug: the list is cut to five before the keywords with digits are dropped
LimitedKeywords_CutFirst(kws, d) == CleanedKeywords(Take(kws, KeepLimit), d)

\* cleaned_keywords[:5]
LimitedKeywords(kws, d) == Take(CleanedKeywords(kws, d), KeepLimit)

\* the returned string (the delimiter is one of Delimiters: process_dir
\* rejects any other before the call)
KeywordsToString(kws, d) == Join(d, LimitedKeywords(kws, d))

---------------------------------------------------------------------------
(* The directory *)

A_webp   == <<"a">> \o DotWebp
A_WEBP   == <<"a", ".", "W", "E", "B", "P">>
B_webp   == <<"b">> \o DotWebp
A_jpeg   == <<"a">> \o DotJpeg
Cat_jpeg == <<"c", "a", "t">> \o DotJpeg

\* the files a directory may hold when process_dir starts
Universe == {A_webp, A_WEBP, B_webp, A_jpeg, Cat_jpeg}

\* the keyword lists the classifier may answer with
Cat == <<"c", "a", "t">>
C4t == <<"c", "4", "t">>
A   == <<"a">>
KeywordLists == {<<>>, <<Cat>>, <<C4t>>, <<A>>, <<Cat, C4t, A>>}

\* what the response text is to json.loads and to ImageClassification(**..),
\* once the code fences are stripped: not JSON, JSON without the "keywords"
\* field, or {"keywords": [...]}
Responses ==
    {[kind |-> "garbled", keywords |-> <<>>],
     [kind |-> "no_field", keywords |-> <<>>]}
    \cup {[kind |-> "keywords", keywords |-> k] : k \in KeywordLists}

NoResponse == [kind |-> "none", keywords |-> <<>>]

\* file.is_file() and file.suffix.lower() == ".webp", over the names of d
LegacyFiles(d) == {n \in DOMAIN d : Lower(Suffix(n)) = DotWebp}

\* dir_path.glob("*.webp"): the pattern is matched case-sensitively or not,
\* as the platform does
Glob(d, sensitive) ==
    {n \in DOMAIN d : IF sensitive THEN EndsWith(n, DotWebp)
                                   ELSE EndsWith(Lower(n), DotWebp)}

\* d with file n written (created or overwritten) with content c
WriteFile(d, n, c) ==
    [m \in DOMAIN d \cup {n} |-> IF m = n THEN c ELSE d[m]]

\* d without file n
RemoveFile(d, n) == [m \in DOMAIN d \ {n} |-> d[m]]

\* os.rename(src, dst) where it succeeds: dst is replaced silently
RenameFile(d, src, dst) ==
    IF src = dst THEN d ELSE RemoveFile(WriteFile(d, dst, d[src]), src)

\* the new file convert_webp_to_jpeg saves for legacy file f
JpegPath(f) == SplitextRoot(f) \o DotJpeg

\* the image saved from legacy file f: the same picture, re-encoded
JpegOf(d, f) == [src |-> d[f].src, fmt |-> "jpeg"]

---------------------------------------------------------------------------
(* process_dir *)

\* the largest number of files in the directory when process_dir starts
MaxFiles == 4

Init ==
    /\ pc = "start"
    /\ delimiter \in Delimiters \cup {"+"}
    /\ caseSensitive \in BOOLEAN
    /\ \E names \in SUBSET Universe :
          /\ Cardinality(names) <= MaxFiles
          /\ caseSensitive \/ \A n, m \in names : Lower(n) = Lower(m) => n = m
          /\ dir = [n \in names |-> [src |-> n, fmt |-> "orig"]]
    /\ initDir = dir
    /\ webp_files = {}
    /\ todo = {}
    /\ converted = <<>>
    /\ origin = <<>>
    /\ convOk = <<>>
    /\ i = 0
    /\ response = NoResponse
    /\ keywords = <<>>
    /\ kept_keywords = <<>>
    /\ new_file_name = <<>>
    /\ st = <<>>
    /\ failedFrom = <<>>
    /\ failKind = <<>>
    /\ derived = <<>>
    /\ removed = <<>>

\* raise typer.BadParameter: nothing has been read or written
Reject ==
    /\ pc = "start"
    /\ delimiter \notin Delimiters
    /\ pc' = "rejected"
    /\ UNCHANGED <<params, dir, webp_files, conv, i, locals, hist>>

\* webp_files = list(dir_path.glob("*.webp")), then convert_files_to_jpeg
\* starts iterating the directory
GlobFiles ==
    /\ pc = "start"
    /\ delimiter \in Delimiters
    /\ webp_files' = Glob(dir, caseSensitive)
    /\ todo' = LegacyFiles(dir)
    /\ pc' = "convert"
    /\ UNCHANGED <<params, dir, converted, origin, convOk, i, locals, hist>>

\* a new entry of the converted list starts in state Normalized
NewEntry ==
    /\ st' = Append(st, "Normalized")
    /\ failedFrom' = Append(failedFrom, "-")
    /\ failKind' = Append(failKind, "-")
    /\ derived' = Append(derived, None)
    /\ removed' = Append(removed, None)

\* one iteration of convert_files_to_jpeg, in the directory's order:
\* convert_webp_to_jpeg saves the new file and returns its path
ConvertOk ==
    /\ pc = "convert"
    /\ \E f \in todo :
          /\ todo' = todo \ {f}
          /\ dir' = WriteFile(dir, JpegPath(f), JpegOf(dir, f))
          /\ converted' = Append(converted, JpegPath(f))
          /\ origin' = Append(origin, f)
          /\ convOk' = Append(convOk, TRUE)
    /\ NewEntry
    /\ UNCHANGED <<pc, params, webp_files, i, locals>>

\* one iteration of convert_files_to_jpeg where Image.open or convert raises
\* IOError: convert_webp_to_jpeg returns its message, which is appended as a
\* Path like any other result
ConvertFail ==
    /\ pc = "convert"
    /\ \E f \in todo :
          /\ todo' = todo \ {f}
          /\ converted' = Append(converted, ErrorMessage)
          /\ origin' = Append(origin, f)
          /\ convOk' = Append(convOk, FALSE)
    /\ NewEntry
    /\ UNCHANGED <<pc, params, dir, webp_files, i, locals>>

\* convert_files_to_jpeg returns; process_dir returns early on an empty list
\* and calls process_image otherwise
FinishConvert ==
    /\ pc = "convert"
    /\ todo = {}
    /\ IF converted = <<>>
       THEN pc' = "done" /\ i' = i
       ELSE pc' = "classify" /\ i' = 1
    /\ UNCHANGED <<params, dir, webp_files, conv, locals, hist>>

---------------------------------------------------------------------------
(* process_image *)

\* the loop moves to the next entry, or ends (the warnings about the
\* remaining webp_files change nothing); the locals of the iteration are dead
NextEntry ==
    /\ i' = i + 1
    /\ pc' = IF i = Len(converted) THEN "done" ELSE "classify"
    /\ response' = NoResponse
    /\ keywords' = <<>>
    /\ kept_keywords' = <<>>
    /\ new_file_name' = <<>>

\* a bug: the handler discards the file it could not process
Fail_Discard(from, kind) ==
    /\ st' = [st EXCEPT ![i] = "Failed"]
    /\ failedFrom' = [failedFrom EXCEPT ![i] = from]
    /\ failKind' = [failKind EXCEPT ![i] = kind]
    /\ NextEntry
    /\ dir' = IF converted[i] \in DOMAIN dir
              THEN RemoveFile(dir, converted[i]) ELSE dir
    /\ UNCHANGED <<webp_files, derived, removed>>

\* a bug: the handler logs the error and raises it again, out of the loop
Fail_Raise(from, kind) ==
    /\ st' = [st EXCEPT ![i] = "Failed"]
    /\ failedFrom' = [failedFrom EXCEPT ![i] = from]
    /\ failKind' = [failKind EXCEPT ![i] = kind]
    /\ pc' = "aborted"
    /\ UNCHANGED <<i, locals, dir, webp_files, derived, removed>>

\* the except clauses: the error is logged and the loop continues
Fail(from, kind) ==
    /\ st' = [st EXCEPT ![i] = "Failed"]
    /\ failedFrom' = [failedFrom EXCEPT ![i] = from]
    /\ failKind' = [failKind EXCEPT ![i] = kind]
    /\ NextEntry
    /\ UNCHANGED <<dir, webp_files, derived, removed>>

\* generate_keywords(file): open and read the file, then ollama.chat
Classify ==
    /\ pc = "classify"
    /\ IF converted[i] = DSStore
       THEN /\ st' = [st EXCEPT ![i] = "Skipped"]
            /\ NextEntry
            /\ UNCHANGED <<dir, webp_files, failedFrom, failKind, derived,
                           removed>>
       ELSE \/ /\ converted[i] \notin DOMAIN dir
               /\ Fail("Normalized", "open")
            \/ /\ converted[i] \in DOMAIN dir
               /\ Fail("Normalized", "service")
            \/ /\ converted[i] \in DOMAIN dir
               /\ \E r \in Responses : response' = r
               /\ st' = [st EXCEPT ![i] = "Classified"]
               /\ pc' = "derive"
               /\ UNCHANGED <<dir, webp_files, i, keywords, kept_keywords,
                              new_file_name, failedFrom, failKind, derived,
                              removed>>
    /\ UNCHANGED <<params, conv>>

\* json.loads, ImageClassification(**keywords),
\* keywords_to_string_with_delimiter(delimiter) and new_file_path
Derive ==
    /\ pc = "derive"
    /\ \/ /\ response.kind = "garbled"
          /\ Fail("Classified", "json")
       \/ /\ response.kind = "no_field"
          /\ Fail("Classified", "field")
       \/ /\ response.kind = "keywords"
          /\ keywords' = response.keywords
          /\ kept_keywords' = LimitedKeywords(response.keywords, delimiter)
          /\ new_file_name' = KeywordsToString(response.keywords, delimiter)
          /\ derived' = [derived EXCEPT ![i] = new_file_name']
          /\ st' = [st EXCEPT ![i] = "FilenameDerived"]
          /\ pc' = "rename"
          /\ UNCHANGED <<dir, webp_files, i, response, failedFrom, failKind,
                         removed>>
    /\ UNCHANGED <<params, conv>>

\* new_file_path = directory_path / f"{new_file_name}{file.suffix}"
NewFilePath(k) == derived[k] \o Suffix(converted[k])

\* a bug: a rename that raises is passed over and the handler goes on to
\* remove the legacy file
Rename_Swallow ==
    /\ pc = "rename"
    /\ \/ /\ st' = [st EXCEPT ![i] = "Renamed"]
          /\ pc' = "cleanup"
          /\ UNCHANGED <<dir, webp_files, i, locals, failedFrom, failKind,
                         derived, removed>>
       \/ /\ converted[i] \in DOMAIN dir
          /\ dir' = RenameFile(dir, converted[i], NewFilePath(i))
          /\ st' = [st EXCEPT ![i] = "Renamed"]
          /\ pc' = "cleanup"
          /\ UNCHANGED <<webp_files, i, locals, failedFrom, failKind,
                         derived, removed>>
    /\ UNCHANGED <<params, conv>>

\* file.rename(new_file_path): it raises, or the file is moved
Rename ==
    /\ pc = "rename"
    /\ \/ Fail("FilenameDerived", "rename")
       \/ /\ converted[i] \in DOMAIN dir
          /\ dir' = RenameFile(dir, converted[i], NewFilePath(i))
          /\ st' = [st EXCEPT ![i] = "Renamed"]
          /\ pc' = "cleanup"
          /\ UNCHANGED <<webp_files, i, locals, failedFrom, failKind,
                         derived, removed>>
    /\ UNCHANGED <<params, conv>>

\* the legacy files whose stem is the stem of entry k's (old) path
Matches(k) == {w \in webp_files : Stem(w) = Stem(converted[k])}

\* next(w for w in webp_files if w.stem == file.stem), then unlink and
\* remove, or the warning that there is none
Cleanup ==
    /\ pc = "cleanup"
    /\ \/ /\ Matches(i) = {}
          /\ st' = [st EXCEPT ![i] = "OriginalNotFound"]
          /\ NextEntry
          /\ UNCHANGED <<dir, webp_files, failedFrom, failKind, derived,
                         removed>>
       \/ /\ Matches(i) # {}
          /\ Fail("Renamed", "unlink")
       \/ /\ \E w \in Matches(i) :
                /\ w \in DOMAIN dir
                /\ dir' = RemoveFile(dir, w)
                /\ webp_files' = webp_files \ {w}
                /\ removed' = [removed EXCEPT ![i] = w]
          /\ st' = [st EXCEPT ![i] = "OriginalRemoved"]
          /\ NextEntry
          /\ UNCHANGED <<failedFrom, failKind, derived>>
    /\ UNCHANGED <<params, conv>>

Next ==
    \/ Reject
    \/ GlobFiles
    \/ ConvertOk
    \/ ConvertFail
    \/ FinishConvert
    \/ Classify
    \/ Derive
    \/ Rename
    \/ Cleanup

Spec == Init /\ [][Next]_vars

\* the program is sequential: a step that can be taken is taken
FairSpec == Spec /\ WF_vars(Next)

---------------------------------------------------------------------------
(* keywords_to_string_with_delimiter on its own: every keyword list of up *)
(* to MaxKeywords keywords of the pool, every accepted delimiter          *)

MaxKeywords == 7

\* a plain keyword, one with a digit, one with a space, one that holds
\* delimiter characters itself
KeywordPool ==
    {<<"a">>, <<"b", "1">>, <<"c", " ", "d">>, <<"e", "_", "-">>}

KwInit ==
    /\ pc = "kw"
    /\ delimiter \in Delimiters
    /\ \E n \in 0..MaxKeywords : keywords \in [1..n -> KeywordPool]
    /\ kept_keywords = <<>>
    /\ new_file_name = <<>>
    /\ caseSensitive = TRUE
    /\ dir = <<>>
    /\ initDir = <<>>
    /\ webp_files = {}
    /\ todo = {}
    /\ converted = <<>>
    /\ origin = <<>>
    /\ convOk = <<>>
    /\ i = 0
    /\ response = NoResponse
    /\ st = <<>>
    /\ failedFrom = <<>>
    /\ failKind = <<>>
    /\ derived = <<>>
    /\ removed = <<>>

\* image_classification.keywords_to_string_with_delimiter(delimiter)
KwCall ==
    /\ pc = "kw"
    /\ kept_keywords' = LimitedKeywords(keywords, delimiter)
    /\ new_file_name' = KeywordsToString(keywords, delimiter)
    /\ pc' = "kw_done"
    /\ UNCHANGED <<params, dir, webp_files, conv, i, response, keywords, hist>>

KwSpec == KwInit /\ [][KwCall]_vars

---------------------------------------------------------------------------
(* Vocabulary of the claims *)

Entries == 1..Len(converted)

\* the states of the per-file machine before the rename
BeforeRename == {"Normalized", "Classified", "FilenameDerived"}

\* the failures of the classification of a file that could be read: the
\* service call raised, the text is not JSON, the JSON has no "keywords"
ClassifyFailures == {"service", "json", "field"}

\* entry k got past file.rename
RenameSucceeded(k) ==
    \/ st[k] \in {"Renamed", "OriginalRemoved", "OriginalNotFound"}
    \/ st[k] = "Failed" /\ failedFrom[k] = "Renamed"

\* the step in which the handler of entry k ends in Failed
FailsNow(k) == st[k] # "Failed" /\ st'[k] = "Failed"

\* the step deletes a file of the directory
DeletesNow(f) == f \in DOMAIN dir /\ f \notin DOMAIN dir'

\* the number of occurrences of character c in string s
Count(s, c) == Cardinality({k \in 1..Len(s) : s[k] = c})

\* the positions of the keywords without a digit, and the n-th of them
DigitFreeAt(kws) ==
    {k \in 1..Len(kws) : \A c \in 1..Len(kws[k]) : kws[k][c] \notin Digits}

NthOf(S, n) == CHOOSE k \in S : Cardinality({m \in S : m < k}) = n - 1

\* the keywords the claims say are kept: the first five without a digit
FirstFive(kws) ==
    LET S == DigitFreeAt(kws)
        n == IF Cardinality(S) < 5 THEN Cardinality(S) ELSE 5
    IN  [j \in 1..n |-> kws[NthOf(S, j)]]

\* the characters of the keywords of list that are a space or character d
RECURSIVE InnerDelimiters(_, _)
InnerDelimiters(list, d) ==
    IF list = <<>> THEN 0
    ELSE Cardinality({k \in 1..Len(list[1]) : list[1][k] \in {" ", d}})
         + InnerDelimiters(Tail(list), d)

---------------------------------------------------------------------------
(* The claims *)

\* C1: every legacy file the normaliser found (extension matched without
\* regard to case) whose conversion succeeded and whose converted file was
\* renamed is, when process_dir ends, deleted from the directory and absent
\* from the tracked list webp_files.  Only handlers that ran to their end are
\* counted, so that an unlink the operating system refused is not held
\* against the claim.
C1_LegacyGoneAfterRename ==
    pc = "done" =>
        \A k \in Entries :
            (convOk[k] /\ st[k] \in {"OriginalRemoved", "OriginalNotFound"}) =>
                (origin[k] \notin DOMAIN dir /\ origin[k] \notin webp_files)

\* C2: when the keyword list is empty or every keyword has a digit, the
\* derived name is empty, the file is not renamed, and no file named just
\* ".jpeg" is ever created.
C2_NoRenameToEmptyName ==
    /\ (pc = "rename" /\ DigitFreeAt(keywords) = {}) => new_file_name = <<>>
    /\ \A k \in Entries : derived[k] = <<>> => ~RenameSucceeded(k)
    /\ DotJpeg \notin DOMAIN dir

C4_OnlyConvertedFilesListed ==
    /\ \A k \in Entries : convOk[k] /\ converted[k] = JpegPath(origin[k])
    /\ pc \in {"classify", "derive", "rename", "cleanup"} =>
           \E k \in Entries : convOk[k]

\* C5: the result is built from the first five keywords without a digit (all
\* of them when there are fewer), in their order: at most five keywords, none
\* with a digit, each with its spaces replaced, joined by the delimiter.
C5_FirstFiveDigitFree ==
    pc = "kw_done" =>
        LET want == FirstFive(keywords)
        IN  /\ Len(kept_keywords) <= 5
            /\ Len(kept_keywords) = Len(want)
            /\ \A j \in 1..Len(kept_keywords) :
                  /\ kept_keywords[j] = Replace(want[j], delimiter)
                  /\ \A c \in 1..Len(kept_keywords[j]) :
                        kept_keywords[j][c] \notin Digits
            /\ new_file_name = Join(delimiter, kept_keywords)

\* C5, witness: more than five keywords have no digit and one with a digit
\* stands among the first five.
C5_Witness ==
    /\ pc = "kw_done"
    /\ Cardinality(DigitFreeAt(keywords)) > 5
    /\ \E k \in 1..5 : k \notin DigitFreeAt(keywords)
    /\ Len(kept_keywords) = 5

\* C6 as stated: when a keyword is kept, the delimiter occurs in the result
\* once per gap between kept keywords and nowhere else.
C6_DelimiterOnlyBetween ==
    (pc = "kw_done" /\ FirstFive(keywords) # <<>>) =>
        Count(new_file_name, delimiter) = Len(FirstFive(keywords)) - 1

\* C6 as amended: when a keyword is kept, the delimiter occurs in the result
\* once per gap between kept keywords and once per space or delimiter
\* character the kept keywords themselves hold.
C6_DelimiterCount ==
    (pc = "kw_done" /\ FirstFive(keywords) # <<>>) =>
        Count(new_file_name, delimiter) =
            (Len(FirstFive(keywords)) - 1)
            + InnerDelimiters(FirstFive(keywords), delimiter)

\* C6, witness: two keywords or more are kept, one of them holds a space,
\* and the delimiter is not the space.
C6_Witness ==
    /\ pc = "kw_done"
    /\ delimiter = "-"
    /\ Len(FirstFive(keywords)) >= 2
    /\ \E j \in 1..Len(FirstFive(keywords)) :
          Count(FirstFive(keywords)[j], " ") > 0
    /\ Count(new_file_name, "-") > Len(FirstFive(keywords)) - 1

\* every legacy file was handed to the conversion and every entry of the
\* list was taken up by the loop and brought to an end state
AllAttempted ==
    /\ todo = {}
    /\ {origin[k] : k \in Entries} = LegacyFiles(initDir)
    /\ \A k \in Entries :
          st[k] \in {"Failed", "OriginalRemoved", "OriginalNotFound",
                     "Skipped"}

FailStep ==
    \A k \in 1..Len(st) :
        FailsNow(k) =>
            /\ st[k] \in BeforeRename \cup {"Renamed"}
            /\ st[k] = "Renamed" => failKind'[k] = "unlink"
            /\ dir' = dir
            /\ webp_files' = webp_files

\* a step that deletes a legacy file is the handler of the entry in state
\* Renamed ending in OriginalRemoved, the entry's file being at its new path
DeleteStep ==
    \A f \in LegacyFiles(initDir) :
        DeletesNow(f) =>
            /\ pc = "cleanup"
            /\ st[i] = "Renamed"
            /\ st'[i] = "OriginalRemoved"
            /\ NewFilePath(i) \in DOMAIN dir
            /\ NewFilePath(i) # converted[i] => converted[i] \notin DOMAIN dir

C9_NoLegacyLost ==
    pc = "done" =>
        \A f \in LegacyFiles(initDir) :
            f \notin DOMAIN dir =>
                \E n \in DOMAIN dir : dir[n] = [src |-> f, fmt |-> "jpeg"]

\* C10: every file of the initial directory without the legacy extension is
\* in the directory, with its content, at every moment of the run.
C10_OtherFilesUntouched ==
    \A n \in DOMAIN initDir \ LegacyFiles(initDir) :
        n \in DOMAIN dir /\ dir[n] = initDir[n]

=============================================================================
